---- MODULE Spec2Model ----
(***************************************************************************)
(* The DEVS simulation kernel of include/devs/lib.hpp: the event Calendar  *)
(* (a priority queue of cancellable events, logical time, concurrent       *)
(* groups fired through a selector), the atomic simulator (AtomicImpl) and *)
(* the wiring of a compound (CompoundImpl).                                *)
(*                                                                         *)
(* Time is a double in the code; here it is an integer number of ticks,    *)
(* with INF for the IEEE-754 infinity.  The simulated system is a compound *)
(* "root" with the atomic components A and B, the influencer edge A -> B,  *)
(* the compound input wired to A and the output of B wired to the          *)
(* compound output.  Both atomics use delta_int(s) = s + 1, out(s) = s,    *)
(* delta_ext(s, e, x) = s + x + e; their time advance is a table chosen    *)
(* at construction.  Spec drives the Calendar of this system by direct     *)
(* calls of execute_next.  SpecRun constructs a Simulator over one of       *)
(* several wirings of A and B (some of which connect_components rejects)    *)
(* and follows Simulator::run.                                              *)
(***************************************************************************)
EXTENDS Integers, Sequences, FiniteSets, TLC

VARIABLES
    time_,          \* Calendar::time_
    end_time_,      \* Calendar::end_time_
    epsilon_,       \* Calendar::epsilon_
    heap,           \* the events held by the priority queue (CalendarBase)
    cancelled,      \* ids of the events whose shared flag *cancelled_ is true
    atom,           \* per atomic: model_.s, last_transition_time_, cancel_internal_transition_
    nextId,         \* the next event identity (one shared flag per constructed event)
    taTab,          \* per atomic: model_.ta as a table over the state
    pc,             \* "idle" | "executing" (inside execute_concurrent_events) | "failed"
    events,         \* the vector `events` of execute_concurrent_events
    capacity,       \* events.capacity()
    start_time,     \* history: the start_time the Calendar was constructed with
    nInputs,        \* history: number of external_input calls
    callNo,         \* history: number of execute_next calls that extracted a group to fire
    groupT,         \* history: events[0].time() of the last extracted group
    ret,            \* history: result of the last execute_next call
    err,            \* history: the exception raised by the last operation ("none" when none)
    fired,          \* history: execute_event_action calls, in order
    skipped,        \* history: ids of group members skipped because they were cancelled
    dropped,        \* history: ids of cancelled events popped by pop_cancelled_events
    scheduled,      \* history: event_scheduled notifications, in order
    outputs,        \* history: IOModel::output calls, in order
    extCalls,       \* history: model_.delta_external calls, in order
    pendingAtExtract, \* history: per extracted event, the live events pending within epsilon of it
    inputLog,       \* history: the external_input calls, accepted or not
    selected,       \* history: the last pass of the loop of execute_concurrent_events
    fifoRun,        \* history: every select call so far returned the first name of its list
    extracted,      \* history: ids of the events put into the vector `events`
    lastCall,       \* history: the last execute_next call
    influencers,    \* Model::Compound::influencers, in the iteration order of the map
    input_listeners_,  \* IOModel::input_listeners_ of the compound, in registration order
    output_listeners_, \* per component: IOModel::output_listeners_, in registration order
    deltaExt,       \* which delta_external the atomics were given
    transitions,    \* history: on_model_state_transition notifications, in order
    errNames,       \* history: the model names the message of the last exception carries
    simPc,          \* "direct" (a Calendar driven directly) or the position of
                    \* Simulator::run: "new" | "running" | "ended"
    step,           \* the local `step` of Simulator::run
    simLog,         \* history: the notifications made by Simulator::run, in order
    components_,    \* per compound: the names of CompoundImpl::components_, in construction order
    select_,        \* per compound: CompoundImpl::select_
    p_model_        \* the name of Simulator::p_model_, a compound or an atomic

vars == <<time_, end_time_, epsilon_, heap, cancelled, atom, nextId, taTab, pc, events,
          capacity, start_time, nInputs, callNo, groupT, ret, err, fired, skipped,
          dropped, scheduled, outputs, extCalls, pendingAtExtract, inputLog, selected,
          fifoRun, extracted, lastCall, influencers, input_listeners_, output_listeners_,
          deltaExt, transitions, errNames, simPc, step, simLog, components_, select_,
          p_model_>>

\* what the constructors fix for the whole run
wiring == <<influencers, input_listeners_, output_listeners_, deltaExt, components_,
            select_, p_model_>>

\* the state of Simulator::run
simVars == <<simPc, step, simLog>>

-----------------------------------------------------------------------------
(* Bounds of the model *)

MaxEvents == 7      \* events constructed during one run
MaxInputs == 2      \* external inputs scheduled during one run

(* The parameters the Simulator is constructed with, and the times of the inputs *)
StartTimes == {0}
EndTimes == {3}
Epsilons == {0, 1}
InputTimes == {1, 3}

(* Devs::Const::INF *)
INF == 1000

Abs(x) == IF x < 0 THEN -x ELSE x

\* IEEE-754 addition with infinity
Plus(a, b) == IF a = INF \/ b = INF THEN INF ELSE a + b

\* std::abs(a - b) <= epsilon_ ; inf - inf is NaN and inf - x is inf: both compare false
Concurrent(a, b, eps) == a # INF /\ b # INF /\ Abs(a - b) <= eps

Max(a, b) == IF a > b THEN a ELSE b

Range(s) == {s[i] : i \in DOMAIN s}

\* faulty variant: the first element is erased, whatever the index
RemoveFirst(s, i) == Tail(s)

RemoveAt(s, i) == [j \in 1..(Len(s) - 1) |-> IF j < i THEN s[j] ELSE s[j + 1]]

-----------------------------------------------------------------------------
(* The simulated system *)

Atomics == {"A", "B"}
RootName == "root"
BadName == "?"

\* construction order of the components (factories_to_components)
ComponentOrder == <<"A", "B">>

\* a compound that is a component of the root
NestedName == "N"

\* the root compound holds A and B
FlatComponents == (RootName :> ComponentOrder)

\* the root compound holds the compound N, which holds A and B
NestedComponents == (RootName :> <<NestedName>>) @@ (NestedName :> ComponentOrder)

\* the atomics constructed under the model m, in construction order
\* (factories_to_components, recursively)
RECURSIVE Leaves(_)
Concat(seqs) ==
    LET RECURSIVE cat(_)
        cat(i) == IF i > Len(seqs) THEN <<>> ELSE Leaves(seqs[i]) \o cat(i + 1)
    IN cat(1)
Leaves(m) == IF m \in DOMAIN components_ THEN Concat(components_[m]) ELSE <<m>>

\* Model::Compound::fifo_selector, the default of Model::Compound::select
fifo_selector(names) == names[1]

\* the names a selector can return for a list: "fifo" is fifo_selector, "lifo" a selector
\* that returns the last name, "any" an arbitrary function, which may also return a
\* name that is not in the list
Selects(sel, names) ==
    CASE sel = "fifo" -> {fifo_selector(names)}
      [] sel = "lifo" -> {names[Len(names)]}
      [] OTHER -> Range(names) \cup {BadName}

\* faulty variant: a group is given to the selector of the compound that holds its models
select_innermost(m) ==
    IF NestedName \in DOMAIN select_ THEN select_[NestedName]
    ELSE IF m \in DOMAIN select_ THEN select_[m] ELSE "fifo"

\* IOModel::select: CompoundImpl::select returns select_, AtomicImpl::select the
\* fifo_selector
select(m) == IF m \in DOMAIN select_ THEN select_[m] ELSE "fifo"

\* std::nullopt as the key of Compound::influencers (the compound's output) or as an
\* influencer (the compound's input)
Nullopt == "nullopt"

\* a name that is no key of Compound::components
Unknown == "Z"

\* the wiring of the system described above: A -> B, input -> A, B -> output
ChainInfluencers ==
    << [component |-> "B", from |-> << [influencer |-> "A", tr |-> "none"] >>],
       [component |-> "A", from |-> << [influencer |-> Nullopt, tr |-> "none"] >>],
       [component |-> Nullopt, from |-> << [influencer |-> "B", tr |-> "inc"] >>] >>

\* what connect_components has registered so far, and the exception it raised
NoListeners ==
    [err |-> "none", names |-> <<>>, inputs |-> <<>>, outs |-> [a \in Atomics |-> <<>>]]

\* faulty variant: a listener for a name that is no component is dropped silently
connect_component_output_listener_unchecked(c, name, listener) ==
    [c EXCEPT !.outs = [a \in Atomics |-> IF a = name THEN Append(c.outs[a], listener)
                                          ELSE c.outs[a]]]

\* CompoundImpl::connect_component_output_listener
connect_component_output_listener(c, name, listener) ==
    IF name \notin Atomics
    THEN [c EXCEPT !.err = "UnknownComponent", !.names = <<name>>]
    ELSE [c EXCEPT !.outs[name] = Append(@, listener)]

\* faulty variant: std::nullopt is looked up like the name of a component
RECURSIVE connect_compound_output_influencers_unchecked(_, _, _)
connect_compound_output_influencers_unchecked(c, infl, i) ==
    IF i > Len(infl) \/ c.err # "none" THEN c
    ELSE connect_compound_output_influencers_unchecked(
             connect_component_output_listener(
                 c, infl[i].influencer,
                 [kind |-> "compound_output", target |-> RootName, tr |-> infl[i].tr]),
             infl, i + 1)

\* CompoundImpl::connect_compound_output_influencers
RECURSIVE connect_compound_output_influencers(_, _, _)
connect_compound_output_influencers(c, infl, i) ==
    IF i > Len(infl) \/ c.err # "none" THEN c
    ELSE connect_compound_output_influencers(
             IF infl[i].influencer = Nullopt
             THEN [c EXCEPT !.err = "SelfLoop", !.names = <<RootName>>]
             ELSE connect_component_output_listener(
                      c, infl[i].influencer,
                      [kind |-> "compound_output", target |-> RootName, tr |-> infl[i].tr]),
             infl, i + 1)

\* CompoundImpl::connect_component_to_compound_input
connect_component_to_compound_input(c, component, tr) ==
    [c EXCEPT !.inputs = Append(@, [target |-> component, tr |-> tr])]

\* the loop of CompoundImpl::connect_component_influencers
RECURSIVE connect_influencers_of(_, _, _, _)
connect_influencers_of(c, component, infl, i) ==
    IF i > Len(infl) \/ c.err # "none" THEN c
    ELSE connect_influencers_of(
             IF infl[i].influencer = Nullopt
             THEN connect_component_to_compound_input(c, component, infl[i].tr)
             ELSE IF component = infl[i].influencer
             THEN [c EXCEPT !.err = "SelfLoop", !.names = <<component>>]
             ELSE connect_component_output_listener(
                      c, infl[i].influencer,
                      [kind |-> "influencer", target |-> component, tr |-> infl[i].tr]),
             component, infl, i + 1)

\* CompoundImpl::connect_component_influencers
connect_component_influencers(c, component, infl) ==
    IF component \notin Atomics
    THEN [c EXCEPT !.err = "UnknownComponent", !.names = <<component>>]
    ELSE connect_influencers_of(c, component, infl, 1)

\* CompoundImpl::connect_components
RECURSIVE connect_components(_, _, _)
connect_components(c, model_influencers, i) ==
    IF i > Len(model_influencers) \/ c.err # "none" THEN c
    ELSE connect_components(
             IF model_influencers[i].component # Nullopt
             THEN connect_component_influencers(c, model_influencers[i].component,
                                                model_influencers[i].from)
             ELSE connect_compound_output_influencers(c, model_influencers[i].from, 1),
             model_influencers, i + 1)

\* output listeners registered on each component by connect_components:
\* an influencer edge to a component, or the edge to the compound output
OutputListeners(a) == output_listeners_[a]

\* components wired from the compound input, in registration order
InputTargets == input_listeners_

\* time-advance tables: ta(s) = table[(s % 2) + 1]
TaProfiles == { <<1, 1>>, <<2, 2>>, <<0, 2>>, <<0, INF>>, <<INF, INF>> }

\* values of external inputs
InputValues == {1}

\* Model::Atomic::ta
ta(a, s) == taTab[a][(s % 2) + 1]
\* Model::Atomic::delta_internal
delta_internal(s) == s + 1
\* Model::Atomic::out
out(s) == s
\* Model::Atomic::delta_external
delta_external(s, e, x) == IF deltaExt = "s+x+e" THEN s + x + e ELSE s + x

\* faulty variant: the transformer of the edge is not applied
influencer_transform_skipped(value, tr) == value

\* a transformer of an influencer edge (Model::Transformer)
influencer_transform(value, tr) == IF tr = "none" THEN value ELSE value + 1

-----------------------------------------------------------------------------
(* Events *)

NoEvent == [id |-> 0, time |-> 0, model |-> "", kind |-> "none", from |-> "",
            value |-> 0, tr |-> "none"]

\* Event::Event: a fresh shared flag, false
Event(id, time, model, kind, from, value, tr) ==
    [id |-> id, time |-> time, model |-> model, kind |-> kind, from |-> from,
     value |-> value, tr |-> tr]

\* Event::is_cancelled
is_cancelled(e, c) == e.id \in c

\* faulty variant: the flag is shared with the event created next
CancelWithNext(c, id) == c \cup {id, id + 1}

\* Event::get_cancel_callback, invoked: sets the shared flag
Cancel(c, id) == c \cup {id}

-----------------------------------------------------------------------------
(* Calendar *)

\* faulty variant: a queue without order, any event can be on top
TopCandidatesAny(h) == h

\* the candidates for top(): EventSorter orders by time only
TopCandidates(h) == {e \in h : \A f \in h : e.time <= f.time}

\* next_pending_event_ref: pop_cancelled_events, then top() or nullptr.
\* The set of outcomes [heap, top]: the order of events of equal time in the
\* priority queue is not determined by EventSorter.
RECURSIVE next_pending_event_ref(_, _)
next_pending_event_ref(h, c) ==
    IF h = {} THEN { [heap |-> {}, top |-> NoEvent] }
    ELSE UNION { IF is_cancelled(e, c)
                 THEN next_pending_event_ref(h \ {e}, c)
                 ELSE { [heap |-> h, top |-> e] } : e \in TopCandidates(h) }

\* the while loop of Calendar::next: collect the events concurrent with the first
RECURSIVE next_collect(_, _, _, _)
next_collect(h, c, eps, evs) ==
    UNION { IF o.top # NoEvent /\ Concurrent(o.top.time, evs[1].time, eps)
            THEN next_collect(o.heap \ {o.top}, c, eps, Append(evs, o.top))
            ELSE { [heap |-> o.heap, events |-> evs] }
            : o \in next_pending_event_ref(h, c) }

\* Calendar::next: the set of outcomes [heap, events]
next(h, c, eps) ==
    UNION { IF o.top = NoEvent
            THEN { [heap |-> o.heap, events |-> <<>>] }
            ELSE next_collect(o.heap \ {o.top}, c, eps, <<o.top>>)
            : o \in next_pending_event_ref(h, c) }

\* Calendar::advance_time
advance_time(cur, t, eps) == IF Abs(t - cur) > eps THEN t ELSE cur

\* faulty variant: an event at the current time is rejected too
PastScheduleOrNow(t, now) == t <= now

\* faulty variant: no event is rejected
PastScheduleNever(t, now) == FALSE

\* the test of Calendar::schedule_event
PastSchedule(t, now) == t < now

\* Calendar::schedule_event on the world w; the event_scheduled notification also
\* records how many state-transition notifications and outputs were made before it
schedule_event(w, e) ==
    IF w.err # "none" THEN w
    ELSE IF PastSchedule(e.time, w.time) THEN [w EXCEPT !.err = "PastSchedule"]
    ELSE [w EXCEPT !.heap = @ \cup {e},
                   !.scheduled = Append(@, [id |-> e.id, time |-> e.time, at |-> w.time,
                                            by |-> w.cur,
                                            notified |-> Len(w.transitions),
                                            outs |-> Len(w.outputs)])]

\* faulty variant: a name that is not in the list selects the first event
select_index_or_first(names, name) ==
    IF \E i \in DOMAIN names : names[i] = name
    THEN CHOOSE i \in DOMAIN names : names[i] = name /\ \A j \in 1..(i - 1) : names[j] # name
    ELSE 1

\* faulty variant: the index of the last name equal to the selected one
select_index_last(names, name) ==
    IF \E i \in DOMAIN names : names[i] = name
    THEN CHOOSE i \in DOMAIN names :
             names[i] = name /\ \A j \in (i + 1)..Len(names) : names[j] # name
    ELSE 0

\* Calendar::select_index: the index of the first name equal to the selected one, 0 when none
select_index(names, name) ==
    IF \E i \in DOMAIN names : names[i] = name
    THEN CHOOSE i \in DOMAIN names : names[i] = name /\ \A j \in 1..(i - 1) : names[j] # name
    ELSE 0

\* the values a read of event.time() can give in the loop condition of
\* execute_concurrent_events: `event` refers into `events`, and dangles once a
\* push_back has reallocated the vector
event_time_read(t, dangling, top) == IF dangling THEN {t, top.time, INF} ELSE {t}

\* the inner while loop of execute_concurrent_events: push the new concurrent events
RECURSIVE push_new_concurrent(_, _, _, _, _, _, _)
push_new_concurrent(h, c, eps, evs, cap, t, dangling) ==
    UNION { IF o.top = NoEvent
            THEN { [heap |-> o.heap, events |-> evs, capacity |-> cap] }
            ELSE UNION { IF Concurrent(o.top.time, r, eps)
                         THEN push_new_concurrent(o.heap \ {o.top}, c, eps, Append(evs, o.top),
                                                  IF Len(evs) = cap THEN 2 * Max(cap, 1) ELSE cap,
                                                  t, dangling \/ Len(evs) = cap)
                         ELSE { [heap |-> o.heap, events |-> evs, capacity |-> cap] }
                         : r \in event_time_read(t, dangling, o.top) }
            : o \in next_pending_event_ref(h, c) }

-----------------------------------------------------------------------------
(* IOModel, AtomicImpl and CompoundImpl, as functions of a world w:           *)
(* [time, heap, cancelled, atom, nextId, scheduled, outputs, extCalls, err,   *)
(* cur], where cur is the id of the event whose action is running (0 when     *)
(* none) and err is the exception being propagated ("none" when none).        *)

\* faulty variant: the input event is scheduled one tick after the output
input_from_influencer_delayed(w, target, from, time, value, tr) ==
    IF w.err # "none" THEN w
    ELSE IF from = target THEN [w EXCEPT !.err = "SelfLoop"]
    ELSE schedule_event([w EXCEPT !.nextId = @ + 1],
                        Event(w.nextId, time + 1, target, "influencer", from, value, tr))

\* IOModel::input_from_influencer
input_from_influencer(w, target, from, time, value, tr) ==
    IF w.err # "none" THEN w
    ELSE IF from = target THEN [w EXCEPT !.err = "SelfLoop"]
    ELSE schedule_event([w EXCEPT !.nextId = @ + 1],
                        Event(w.nextId, time, target, "influencer", from, value, tr))

\* IOModel::external_input, called on the root model
external_input(w, time, value) ==
    schedule_event([w EXCEPT !.nextId = @ + 1],
                   Event(w.nextId, time, p_model_, "external", p_model_, value, "none"))

\* IOModel::output and invoke_output_listeners: the listeners run synchronously, in
\* registration order (connect_component_influencers, connect_compound_output_influencers)
RECURSIVE invoke_output_listeners(_, _, _, _)
output(w, model, value) ==
    IF w.err # "none" THEN w
    ELSE invoke_output_listeners(
             [w EXCEPT !.outputs = Append(@, [model |-> model, time |-> w.time,
                                              value |-> value])],
             model, value, 1)
invoke_output_listeners(w, model, value, i) ==
    LET ls == IF model \in Atomics THEN OutputListeners(model) ELSE <<>>
    IN IF i > Len(ls) \/ w.err # "none" THEN w
       ELSE invoke_output_listeners(
                IF ls[i].kind = "influencer"
                THEN input_from_influencer(w, ls[i].target, model, w.time, value, ls[i].tr)
                ELSE output(w, RootName, influencer_transform(value, ls[i].tr)),
                model, value, i + 1)

\* AtomicImpl::state_to_str of an int state: operator<< writes its decimal digits, one
\* string per value
state_to_str(s) == s

\* IOModel::state_transitioned: the state-transition listeners are invoked
state_transitioned(w, a, prev, next_) ==
    [w EXCEPT !.transitions = Append(@, [model |-> a, time |-> w.time,
                                          prev |-> prev, next |-> next_])]

\* AtomicImpl::transition_state with update_last_transition_time
transition_state(w, a, new_state) ==
    LET w1 == state_transitioned(w, a, state_to_str(w.atom[a].s), state_to_str(new_state))
    IN [w1 EXCEPT !.atom[a].s = new_state, !.atom[a].last_transition_time = w.time]

\* AtomicImpl::internal_transition_time
internal_transition_time(w, a) == Plus(w.time, ta(a, w.atom[a].s))

\* faulty variant: a passive atomic (infinite time advance) schedules nothing
schedule_internal_transition_unless_passive(w, a) ==
    IF w.err # "none" \/ ta(a, w.atom[a].s) >= INF THEN w
    ELSE schedule_event([w EXCEPT !.nextId = @ + 1, !.atom[a].cancel = w.nextId],
                        Event(w.nextId, internal_transition_time(w, a), a, "internal", a,
                              0, "none"))

\* AtomicImpl::schedule_internal_transition
schedule_internal_transition(w, a) ==
    IF w.err # "none" THEN w
    ELSE schedule_event([w EXCEPT !.nextId = @ + 1, !.atom[a].cancel = w.nextId],
                        Event(w.nextId, internal_transition_time(w, a), a, "internal", a,
                              0, "none"))

\* faulty variant: the output is computed after the transition, from the new state
internal_transition_action_late_output(w, a) ==
    LET w1 == transition_state(w, a, delta_internal(w.atom[a].s))
        w2 == output(w1, a, out(w1.atom[a].s))
    IN schedule_internal_transition(w2, a)

\* faulty variant: the next internal transition is scheduled before the output
internal_transition_action_schedule_first(w, a) ==
    LET y == out(w.atom[a].s)
        w1 == transition_state(w, a, delta_internal(w.atom[a].s))
        w2 == schedule_internal_transition(w1, a)
    IN output(w2, a, y)

\* the action returned by AtomicImpl::get_internal_transition_action
internal_transition_action(w, a) ==
    LET y == out(w.atom[a].s)
        w1 == transition_state(w, a, delta_internal(w.atom[a].s))
        w2 == output(w1, a, y)
    IN schedule_internal_transition(w2, a)

\* faulty variant: the pending internal transition is left alone
cancel_internal_transition_none(w, a) == w

\* AtomicImpl::input_listener, first statement: invoke the stored cancel callback
cancel_internal_transition(w, a) ==
    IF w.atom[a].cancel # 0 THEN [w EXCEPT !.cancelled = Cancel(@, w.atom[a].cancel)] ELSE w

\* faulty variant: the elapsed time is measured from time 0
elapsed_since_time_zero(w, a) == w.time

\* AtomicImpl::elapsed_since_last_transition
elapsed_since_last_transition(w, a) == w.time - w.atom[a].last_transition_time

\* AtomicImpl::external_transition; the call of delta_external is recorded
external_transition(w, a, elapsed, x) ==
    transition_state(
        [w EXCEPT !.extCalls = Append(@, [model |-> a, s |-> w.atom[a].s,
                                          elapsed |-> elapsed, x |-> x, at |-> w.time,
                                          pending |-> w.atom[a].cancel,
                                          pendingCancelled |-> w.atom[a].cancel \in w.cancelled])],
        a, delta_external(w.atom[a].s, elapsed, x))

\* AtomicImpl::input_listener
input_listener(w, a, x) ==
    IF w.err # "none" THEN w
    ELSE LET w1 == cancel_internal_transition(w, a)
             w2 == external_transition(w1, a, elapsed_since_last_transition(w1, a), x)
         IN schedule_internal_transition(w2, a)

\* IBox::value: the dynamic_cast of a Dynamic to the input type X succeeds.  The inputs of
\* type X are the naturals; a negative number stands for a Dynamic that boxes a value of
\* another type
holds_X(x) == x >= 0

\* faulty variant: the conversion fails inside input_listener, after the pending internal
\* transition was cancelled
dynamic_input_listener_late(w, from, a, x) ==
    IF w.err # "none" THEN w
    ELSE IF ~holds_X(x)
    THEN [cancel_internal_transition(w, a) EXCEPT !.err = "TypeMismatch",
                                                  !.names = <<from, a>>]
    ELSE input_listener(w, a, x)

\* AtomicImpl::dynamic_input_listener: the conversion of the Dynamic to X is made for the
\* call of input_listener, before its body runs
dynamic_input_listener(w, from, a, x) ==
    IF w.err # "none" THEN w
    ELSE IF ~holds_X(x) THEN [w EXCEPT !.err = "TypeMismatch", !.names = <<from, a>>]
    ELSE input_listener(w, a, x)

\* IOModel::invoke_input_listeners of an atomic after IOModel::influencer_transform: a
\* transformer, made for values of type X, throws std::bad_cast on another type
invoke_input_listeners(w, from, a, value, tr) ==
    IF w.err # "none" THEN w
    ELSE IF tr # "none" /\ ~holds_X(value)
    THEN [w EXCEPT !.err = "TransformerCast", !.names = <<from, a>>]
    ELSE dynamic_input_listener(w, from, a, influencer_transform(value, tr))

\* faulty variant: the input listeners of the compound run last to first
RECURSIVE compound_input_listeners_reversed(_, _, _)
compound_input_listeners_reversed(w, value, i) ==
    IF i > Len(InputTargets) \/ w.err # "none" THEN w
    ELSE compound_input_listeners_reversed(
             invoke_input_listeners(w, RootName, InputTargets[Len(InputTargets) + 1 - i].target,
                                    value, InputTargets[Len(InputTargets) + 1 - i].tr),
             value, i + 1)

\* the input listeners of the compound (connect_component_to_compound_input), each
\* calling IOModel::direct_input of its component
RECURSIVE compound_input_listeners(_, _, _)
compound_input_listeners(w, value, i) ==
    IF i > Len(InputTargets) \/ w.err # "none" THEN w
    ELSE compound_input_listeners(
             invoke_input_listeners(w, RootName, InputTargets[i].target, value,
                                    InputTargets[i].tr),
             value, i + 1)

\* Event::action
event_action(w, e) ==
    CASE e.kind = "internal" -> internal_transition_action(w, e.model)
      [] e.kind = "influencer" -> invoke_input_listeners(w, e.from, e.model, e.value, e.tr)
      [] OTHER -> IF p_model_ \in Atomics
                  THEN dynamic_input_listener(w, p_model_, p_model_, e.value)
                  ELSE compound_input_listeners(w, e.value, 1)

\* the components of a compound are constructed in turn (factories_to_components);
\* AtomicImpl::AtomicImpl schedules the first internal transition
RECURSIVE construct(_, _)
construct(w, i) ==
    IF i > Len(Leaves(p_model_)) THEN w
    ELSE construct(schedule_internal_transition(w, Leaves(p_model_)[i]), i + 1)

-----------------------------------------------------------------------------
World ==
    [time |-> time_, heap |-> heap, cancelled |-> cancelled, atom |-> atom,
     nextId |-> nextId, scheduled |-> scheduled, outputs |-> outputs,
     extCalls |-> extCalls, err |-> "none", cur |-> 0, transitions |-> transitions,
     names |-> <<>>]

\* the ids of the cancelled events that left the heap h for h2 without being extracted
PoppedCancelled(h, h2, evs) == {e.id : e \in h \ h2} \ {e.id : e \in Range(evs)}

\* the live events of h within epsilon of the events of evs extracted in this pass
PendingPairs(h, c, eps, evs, from, call) ==
    { [a |-> evs[i].id, b |-> f.id, call |-> call] :
        <<i, f>> \in { p \in (from..Len(evs)) \X h :
                          /\ p[2].id # evs[p[1]].id
                          /\ ~is_cancelled(p[2], c)
                          /\ Concurrent(evs[p[1]].time, p[2].time, eps) } }

\* Simulator::Simulator: the calendar, then the model.  CompoundImpl::CompoundImpl
\* constructs the components (every atomic schedules its first internal transition), then
\* connects them; an exception of connect_components leaves no simulator to run
Construct(st, en, eps, tab, infl, dx, sp) ==
    /\ taTab = tab
    /\ influencers = infl
    /\ deltaExt = dx
    /\ LET w == construct(
                  [time |-> st, heap |-> {}, cancelled |-> {},
                   atom |-> [a \in Atomics |->
                               [s |-> 0, last_transition_time |-> 0, cancel |-> 0]],
                   nextId |-> 1, scheduled |-> <<>>, outputs |-> <<>>,
                   extCalls |-> <<>>, err |-> "none", cur |-> 0, transitions |-> <<>>,
                   names |-> <<>>], 1)
           c == connect_components(NoListeners, infl, 1)
       IN /\ time_ = st
          /\ end_time_ = en
          /\ epsilon_ = eps
          /\ heap = w.heap
          /\ cancelled = w.cancelled
          /\ atom = w.atom
          /\ nextId = w.nextId
          /\ scheduled = w.scheduled
          /\ outputs = w.outputs
          /\ extCalls = w.extCalls
          /\ transitions = w.transitions
          /\ start_time = st
          /\ input_listeners_ = c.inputs
          /\ output_listeners_ = c.outs
          /\ err = c.err
          /\ errNames = c.names
          /\ pc = IF c.err = "none" THEN "idle" ELSE "failed"
    /\ simPc = sp
    /\ step = 0
    /\ simLog = <<>>
    /\ events = <<>>
    /\ capacity = 0
    /\ nInputs = 0
    /\ callNo = 0
    /\ groupT = 0
    /\ ret = "none"
    /\ fired = <<>>
    /\ skipped = {}
    /\ dropped = {}
    /\ pendingAtExtract = {}
    /\ inputLog = <<>>
    /\ selected = [called |-> FALSE, names |-> <<>>, name |-> "", idx |-> 0, id |-> 0]
    /\ fifoRun = TRUE
    /\ extracted = {}
    /\ lastCall = [why |-> "none", first |-> 0, before |-> 0, nfired |-> 0]

\* the model the simulation is made over: the components of its compounds, their
\* selectors, and the name of the model at the top
Hierarchy(comps, sel, top) ==
    /\ components_ = comps
    /\ select_ = sel
    /\ p_model_ = top

\* the root compound holding A and B, with an arbitrary selector
FlatHierarchy == Hierarchy(FlatComponents, (RootName :> "any"), RootName)

\* a Calendar and the system A -> B, driven by direct calls of execute_next
Init ==
    \E st \in StartTimes, en \in EndTimes, eps \in Epsilons, tab \in [Atomics -> TaProfiles] :
        /\ FlatHierarchy
        /\ Construct(st, en, eps, tab, ChainInfluencers, "s+x+e", "direct")

\* IOModel::external_input called on the root model between two execute_next calls
ExternalInputOf(times, values) ==
    /\ pc = "idle"
    /\ nInputs < MaxInputs
    /\ nextId <= MaxEvents
    /\ \E t \in times, x \in values :
        LET w == external_input(World, t, x)
        IN /\ heap' = w.heap
           /\ nextId' = w.nextId
           /\ scheduled' = w.scheduled
           /\ err' = w.err
           /\ errNames' = w.names
           /\ inputLog' = Append(inputLog, [time |-> t, value |-> x, at |-> time_])
    /\ nInputs' = nInputs + 1
    /\ UNCHANGED <<time_, end_time_, epsilon_, cancelled, atom, taTab, pc, events, capacity,
                   start_time, callNo, groupT, ret, fired, skipped, dropped, outputs,
                   extCalls, pendingAtExtract, selected, fifoRun, extracted, lastCall,
                   wiring, transitions, simVars>>

ExternalInput == ExternalInputOf(InputTimes, InputValues)

\* the notifications of CompoundImpl::sim_started and sim_ended: every atomic, with
\* the calendar time and its state
SimNotifications(what, t) ==
    [i \in DOMAIN Leaves(p_model_) |->
        [what |-> what, name |-> Leaves(p_model_)[i], time |-> t,
         n |-> state_to_str(atom[Leaves(p_model_)[i]].s)]]

\* Simulator::sim_started
sim_started(t) == SimNotifications("start", t)

\* Simulator::sim_ended
sim_ended(t) == SimNotifications("end", t)

\* faulty variant: the step passed to the observer is never incremented
on_sim_step_first(t, n) == [what |-> "step", name |-> RootName, time |-> t, n |-> 1]

\* the call of Printer::on_sim_step made by the loop of Simulator::run
on_sim_step(t, n) == [what |-> "step", name |-> RootName, time |-> t, n |-> n]

\* Simulator::run up to its first call of execute_next
SimulatorRun ==
    /\ simPc = "new"
    /\ pc = "idle"
    /\ simPc' = "running"
    /\ step' = 1
    /\ simLog' = simLog \o sim_started(time_)
    /\ UNCHANGED <<time_, end_time_, epsilon_, heap, cancelled, atom, nextId, taTab, pc,
                   events, capacity, start_time, nInputs, callNo, groupT, ret, err, fired,
                   skipped, dropped, scheduled, outputs, extCalls, pendingAtExtract,
                   inputLog, selected, fifoRun, extracted, lastCall, wiring, transitions,
                   errNames>>

\* faulty variant: an event exactly at end_time is beyond the end too
PastEndOrAt(t, end) == t >= end

\* the test of Calendar::execute_next on the time of the first extracted event
PastEnd(t, end) == t > end

\* Calendar::execute_next up to the call of execute_concurrent_events
ExecuteNext ==
    /\ pc = "idle"
    /\ simPc \in {"direct", "running"}
    /\ \E o \in next(heap, cancelled, epsilon_) :
        /\ heap' = o.heap
        /\ dropped' = dropped \cup PoppedCancelled(heap, o.heap, o.events)
        /\ lastCall' = [why |-> IF o.events = <<>> THEN "empty"
                                ELSE IF PastEnd(o.events[1].time, end_time_) THEN "end"
                                ELSE "fire",
                        first |-> IF o.events = <<>> THEN 0 ELSE o.events[1].time,
                        before |-> time_, nfired |-> Len(fired)]
        /\ IF o.events = <<>>
           THEN /\ ret' = "false"
                /\ UNCHANGED <<time_, pc, events, capacity, callNo, groupT, pendingAtExtract,
                               extracted>>
           ELSE IF PastEnd(o.events[1].time, end_time_)
           THEN /\ time_' = advance_time(time_, end_time_, epsilon_)
                /\ ret' = "false"
                /\ UNCHANGED <<pc, events, capacity, callNo, groupT, pendingAtExtract,
                               extracted>>
           ELSE /\ time_' = advance_time(time_, o.events[1].time, epsilon_)
                /\ extracted' = extracted \cup {e.id : e \in Range(o.events)}
                /\ pc' = "executing"
                /\ events' = o.events
                /\ capacity' = Len(o.events)
                /\ callNo' = callNo + 1
                /\ groupT' = o.events[1].time
                /\ ret' = "none"
                /\ pendingAtExtract' = pendingAtExtract \cup
                       PendingPairs(heap, cancelled, epsilon_, o.events, 1, callNo + 1)
    /\ err' = "none"
    /\ errNames' = <<>>
    /\ IF simPc = "running" /\ ret' = "false"
       THEN /\ simPc' = "ended"
            /\ simLog' = simLog \o sim_ended(time_')
            /\ UNCHANGED step
       ELSE UNCHANGED simVars
    /\ UNCHANGED <<end_time_, epsilon_, cancelled, atom, nextId, taTab, start_time, nInputs,
                   fired, skipped, scheduled, outputs, extCalls, inputLog, selected, fifoRun,
                   wiring, transitions>>

\* the names the selector can return for the group evs
SelectorChoices(evs) ==
    IF Len(evs) > 1 THEN Selects(select(p_model_), [i \in DOMAIN evs |-> evs[i].model])
    ELSE {""}

\* faulty variant: no group member is executed
ShouldExecuteNever(e, c) == FALSE

\* faulty variant: the cancellation flag of a group member is not looked at
ShouldExecuteAlways(e, c) == TRUE

\* the test of execute_concurrent_events before execute_event_action
ShouldExecute(e, c) == ~is_cancelled(e, c)

\* one iteration of the loop of Calendar::execute_concurrent_events; the call of
\* execute_next returns true when the loop ends
ExecuteConcurrentEvent ==
    /\ pc = "executing"
    /\ \E name \in SelectorChoices(events) :
        LET names == [i \in DOMAIN events |-> events[i].model]
            idx == IF Len(names) > 1 THEN select_index(names, name) ELSE 1
        IN /\ selected' = [called |-> Len(names) > 1, names |-> names, name |-> name,
                            idx |-> idx, id |-> IF idx = 0 THEN 0 ELSE events[idx].id]
           /\ fifoRun' = (fifoRun /\ (Len(names) > 1 => name = names[1]))
           /\ IF idx = 0
              THEN /\ pc' = "failed"
                   /\ err' = "BadSelect"
                   /\ errNames' = <<>>
                   /\ UNCHANGED <<time_, heap, cancelled, atom, nextId, events, capacity, ret,
                                  fired, skipped, dropped, scheduled, outputs, extCalls,
                                  pendingAtExtract, extracted, transitions>>
              ELSE LET event == events[idx]
                       run == ShouldExecute(event, cancelled)
                       w == IF run THEN event_action([World EXCEPT !.cur = event.id], event)
                            ELSE World
                   IN /\ w.nextId <= MaxEvents + 1
                      /\ \E o \in (IF run
                                   THEN push_new_concurrent(w.heap, w.cancelled, epsilon_, events,
                                                            capacity, event.time, FALSE)
                                   ELSE { [heap |-> heap, events |-> events,
                                           capacity |-> capacity] }) :
                           /\ heap' = o.heap
                           /\ events' = RemoveAt(o.events, idx)
                           /\ capacity' = o.capacity
                           /\ dropped' = dropped \cup PoppedCancelled(w.heap, o.heap, o.events)
                           /\ extracted' = extracted \cup {e.id : e \in Range(o.events)}
                           /\ pendingAtExtract' = pendingAtExtract \cup
                                  PendingPairs(w.heap, w.cancelled, epsilon_, o.events,
                                               Len(events) + 1, callNo)
                           /\ pc' = IF w.err # "none" THEN "failed"
                                    ELSE IF Len(o.events) = 1 THEN "idle" ELSE "executing"
                           /\ ret' = IF w.err = "none" /\ Len(o.events) = 1 THEN "true" ELSE ret
                      /\ cancelled' = w.cancelled
                      /\ atom' = w.atom
                      /\ nextId' = w.nextId
                      /\ scheduled' = w.scheduled
                      /\ outputs' = w.outputs
                      /\ extCalls' = w.extCalls
                      /\ transitions' = w.transitions
                      /\ err' = w.err
                      /\ errNames' = w.names
                      /\ fired' = IF run
                                  THEN Append(fired, [id |-> event.id, time |-> event.time,
                                                      model |-> event.model, kind |-> event.kind,
                                                      at |-> time_, call |-> callNo,
                                                      cancelled |-> is_cancelled(event, cancelled)])
                                  ELSE fired
                      /\ skipped' = IF run THEN skipped ELSE skipped \cup {event.id}
                      /\ UNCHANGED time_
    /\ IF simPc = "running" /\ pc' = "idle" /\ ret' = "true"
       THEN /\ simLog' = Append(simLog, on_sim_step(time_, step))
            /\ step' = step + 1
            /\ UNCHANGED simPc
       ELSE UNCHANGED simVars
    /\ UNCHANGED <<end_time_, epsilon_, taTab, start_time, nInputs, callNo, groupT, inputLog,
                   lastCall, wiring>>

Next == ExternalInput \/ ExecuteNext \/ ExecuteConcurrentEvent

Spec == Init /\ [][Next]_vars

-----------------------------------------------------------------------------
(* A Simulator constructed over one of several wirings of A and B, and run.    *)
(* One tick is half a time unit here, so that an input can fall between two    *)
(* internal transitions: the windows are 0..1, 0..3 and 0..6 ticks.            *)

\* <<start_time, end_time, time_epsilon>> of the Simulator
RunWindows == { <<0, 3, 0>>, <<0, 6, 0>>, <<0, 1, 1>> }

\* constant time advances, and the passive atomic
RunTaProfiles == { <<1, 1>>, <<2, 2>>, <<INF, INF>> }

\* the time advances of B
RunTaProfilesB == { <<2, 2>>, <<INF, INF>> }

\* input -> A, A -> output; B is wired to nothing
SoloInfluencers ==
    << [component |-> "A", from |-> << [influencer |-> Nullopt, tr |-> "none"] >>],
       [component |-> Nullopt, from |-> << [influencer |-> "A", tr |-> "inc"] >>] >>

\* input -> A and input -> B, registered in this order; both feed the output
FanOutInfluencers ==
    << [component |-> "A", from |-> << [influencer |-> Nullopt, tr |-> "none"] >>],
       [component |-> "B", from |-> << [influencer |-> Nullopt, tr |-> "inc"] >>],
       [component |-> Nullopt, from |-> << [influencer |-> "B", tr |-> "none"],
                                           [influencer |-> "A", tr |-> "inc"] >>] >>

\* the same edges met in the other order
FanOutReversed ==
    << [component |-> Nullopt, from |-> << [influencer |-> "A", tr |-> "inc"],
                                           [influencer |-> "B", tr |-> "none"] >>],
       [component |-> "B", from |-> << [influencer |-> Nullopt, tr |-> "inc"] >>],
       [component |-> "A", from |-> << [influencer |-> Nullopt, tr |-> "none"] >>] >>

\* wirings that connect_components accepts
GoodInfluencers == {ChainInfluencers, SoloInfluencers, FanOutInfluencers, FanOutReversed}

\* wirings with an edge whose source is its target, with a name that is no component,
\* or with both
BadInfluencers ==
    { << [component |-> "A", from |-> << [influencer |-> Nullopt, tr |-> "none"],
                                         [influencer |-> "A", tr |-> "none"] >>] >>,
      << [component |-> "B", from |-> << [influencer |-> "A", tr |-> "none"] >>],
         [component |-> Nullopt, from |-> << [influencer |-> "B", tr |-> "none"],
                                             [influencer |-> Nullopt, tr |-> "none"] >>] >>,
      << [component |-> "A", from |-> << [influencer |-> Nullopt, tr |-> "none"] >>],
         [component |-> Unknown, from |-> << [influencer |-> "A", tr |-> "none"] >>] >>,
      << [component |-> "B", from |-> << [influencer |-> "A", tr |-> "none"],
                                         [influencer |-> Unknown, tr |-> "none"] >>] >>,
      << [component |-> Nullopt, from |-> << [influencer |-> Unknown, tr |-> "inc"] >>] >>,
      << [component |-> "A", from |-> << [influencer |-> "A", tr |-> "none"] >>],
         [component |-> Unknown, from |-> << [influencer |-> "A", tr |-> "none"] >>] >>,
      << [component |-> Unknown, from |-> << [influencer |-> "A", tr |-> "none"] >>],
         [component |-> "A", from |-> << [influencer |-> "A", tr |-> "none"] >>] >>,
      << [component |-> Unknown, from |-> << [influencer |-> Unknown, tr |-> "none"] >>] >> }

\* the time, in ticks, of the inputs scheduled on the root
RunInputTimes == {1}

\* the values of the inputs: 10, and a Dynamic of another type than X
RunInputValues == {10, -1}

InitRun ==
    \E win \in RunWindows, ta_A \in RunTaProfiles, ta_B \in RunTaProfilesB,
       infl \in GoodInfluencers \cup BadInfluencers :
        /\ FlatHierarchy
        /\ Construct(win[1], win[2], win[3],
                     [a \in Atomics |-> IF a = "A" THEN ta_A ELSE ta_B], infl, "s+x", "new")

\* IOModel::external_input called on the root model of the Simulator
RunExternalInput == ExternalInputOf(RunInputTimes, RunInputValues)

NextRun == RunExternalInput \/ SimulatorRun \/ ExecuteNext \/ ExecuteConcurrentEvent

SpecRun == InitRun /\ [][NextRun]_vars

-----------------------------------------------------------------------------
(* A Simulator whose start time is not 0, over the wiring input -> A -> output.  *)

\* <<start_time, end_time, time_epsilon>> of the Simulator
StartWindows == { <<2, 5, 0>>, <<-3, 0, 0>> }

\* the absolute times of the inputs: one inside each window
StartInputTimes == {-2, 3}

InitStart ==
    \E win \in StartWindows, ta_A \in RunTaProfiles, ta_B \in RunTaProfilesB :
        /\ FlatHierarchy
        /\ Construct(win[1], win[2], win[3],
                     [a \in Atomics |-> IF a = "A" THEN ta_A ELSE ta_B], SoloInfluencers,
                     "s+x", "new")

\* IOModel::external_input called on the root model of the Simulator
StartExternalInput == ExternalInputOf(StartInputTimes, {10})

NextStart == StartExternalInput \/ SimulatorRun \/ ExecuteNext \/ ExecuteConcurrentEvent

SpecStart == InitStart /\ [][NextStart]_vars

-----------------------------------------------------------------------------
(* A Simulator over a root compound whose only component is the compound N that  *)
(* holds A and B, the two compounds having different selectors; or over the      *)
(* atomic A alone.                                                               *)

\* <<start_time, end_time, time_epsilon>> of the Simulator
NestWindows == { <<0, 3, 0>>, <<0, 2, 1>> }

\* the wiring of N: A -> B; nothing is wired to the input or the output of N, and the
\* root wires nothing
InnerInfluencers ==
    << [component |-> "B", from |-> << [influencer |-> "A", tr |-> "none"] >>] >>

\* the model trees: <<components, selectors, name of the top model, wiring>>
NestHierarchies ==
    { <<NestedComponents, (RootName :> "lifo") @@ (NestedName :> "fifo"), RootName,
        InnerInfluencers>>,
      <<NestedComponents, (RootName :> "fifo") @@ (NestedName :> "lifo"), RootName,
        InnerInfluencers>>,
      <<[c \in {} |-> <<>>], [c \in {} |-> ""], "A", <<>> >> }

\* the times of the inputs scheduled on the top model
NestInputTimes == {1, 2}

InitNest ==
    \E win \in NestWindows, ta_A \in RunTaProfiles, ta_B \in RunTaProfilesB,
       h \in NestHierarchies :
        /\ Hierarchy(h[1], h[2], h[3])
        /\ Construct(win[1], win[2], win[3],
                     [a \in Atomics |-> IF a = "A" THEN ta_A ELSE ta_B], h[4], "s+x", "new")

\* IOModel::external_input called on the top model of the Simulator
NestExternalInput == ExternalInputOf(NestInputTimes, {10})

NextNest == NestExternalInput \/ SimulatorRun \/ ExecuteNext \/ ExecuteConcurrentEvent

SpecNest == InitNest /\ [][NextNest]_vars

-----------------------------------------------------------------------------
(* A Calendar driven directly, as in Spec, whose user also keeps the cancellation  *)
(* callbacks of the events and invokes them between two execute_next calls.        *)

\* the time advances of A in this system
CancelTaProfiles == { <<1, 1>>, <<2, 2>> }

InitCancel ==
    \E eps \in Epsilons, ta_A \in CancelTaProfiles, ta_B \in RunTaProfilesB :
        /\ FlatHierarchy
        /\ Construct(0, 3, eps, [a \in Atomics |-> IF a = "A" THEN ta_A ELSE ta_B],
                     ChainInfluencers, "s+x+e", "direct")

\* the callback returned by Event::get_cancel_callback for an event scheduled earlier
\* (pending, fired or dropped), invoked between two execute_next calls
CancelHandle ==
    /\ pc = "idle"
    /\ \E id \in 1..(nextId - 1) :
          /\ id \notin cancelled
          /\ cancelled' = Cancel(cancelled, id)
    /\ UNCHANGED <<time_, end_time_, epsilon_, heap, atom, nextId, taTab, pc, events,
                   capacity, start_time, nInputs, callNo, groupT, ret, err, fired, skipped,
                   dropped, scheduled, outputs, extCalls, pendingAtExtract, inputLog,
                   selected, fifoRun, extracted, lastCall, wiring, transitions, errNames,
                   simVars>>

\* IOModel::external_input called on the root model, for time 1
CancelExternalInput == ExternalInputOf({1}, InputValues)

NextCancel == CancelExternalInput \/ CancelHandle \/ ExecuteNext \/ ExecuteConcurrentEvent

SpecCancel == InitCancel /\ [][NextCancel]_vars

-----------------------------------------------------------------------------
(* Properties *)

FiredIds == {fired[i].id : i \in DOMAIN fired}

\* the events of the calendar that are pending: in the heap, or extracted into the
\* current group and not yet processed
Pending == heap \cup Range(events)

PendingInternals(a) ==
    {e \in Pending : e.kind = "internal" /\ e.model = a /\ ~is_cancelled(e, cancelled)}

\* C1: a cancelled event is never fired: no execute_event_action call (action and
\* executing-event notification) is made for an event whose flag is set at that moment,
\* neither for a cancelled event surfacing in the heap nor for a member of the group
\* cancelled by an earlier member.
CancelledNeverFired ==
    \A i \in DOMAIN fired :
        /\ ~fired[i].cancelled
        /\ fired[i].id \notin skipped \cup dropped

\* a run in which a cancelled event was popped from the heap, another was skipped in
\* its group, and events were fired
CancelledNeverFiredWitness ==
    /\ skipped # {}
    /\ dropped # {}
    /\ fired # <<>>

\* C2: every atomic has at most one non-cancelled internal-transition event pending.
SinglePendingInternal ==
    \A a \in Atomics : Cardinality(PendingInternals(a)) <= 1

\* an atomic that received an input while its internal transition was pending: the
\* cancelled event is still in the heap next to the new one
SinglePendingInternalWitness ==
    \E a \in Atomics :
        /\ Cardinality(PendingInternals(a)) = 1
        /\ \E e \in heap : e.kind = "internal" /\ e.model = a /\ is_cancelled(e, cancelled)
        /\ \E i \in DOMAIN extCalls : extCalls[i].model = a

\* C3: an input delivered to an atomic at calendar time T cancels the pending internal
\* transition before delta_ext is evaluated, and that event never fires; the state
\* becomes delta_ext(S, T - last_transition_time, x), the next internal transition is
\* scheduled at T + ta(S'), and no output is emitted.
ExternalTransitionCorrect ==
    /\ [][Len(extCalls') > Len(extCalls) =>
            LET c == extCalls'[Len(extCalls')]
                a == c.model
            IN /\ Len(extCalls') = Len(extCalls) + 1
               /\ c.pending = atom[a].cancel
               /\ c.pending # 0
               /\ c.pendingCancelled
               /\ c.pending \in cancelled'
               /\ c.at = time_
               /\ c.s = atom[a].s
               /\ c.elapsed = time_ - atom[a].last_transition_time
               /\ atom'[a].s = delta_external(atom[a].s,
                                              time_ - atom[a].last_transition_time, c.x)
               /\ atom'[a].last_transition_time = time_
               /\ \E e \in heap' \cup Range(events') :
                      /\ e.id = atom'[a].cancel
                      /\ e.id \notin {f.id : f \in Pending}
                      /\ e.kind = "internal"
                      /\ e.model = a
                      /\ e.time = Plus(time_, ta(a, atom'[a].s))
               /\ outputs' = outputs]_vars
    /\ [](\A i \in DOMAIN extCalls : extCalls[i].pending \notin FiredIds)

\* an atomic that had made a transition at a positive time received an input later
ExternalTransitionWitness ==
    \E i \in DOMAIN extCalls :
        /\ extCalls[i].elapsed > 0
        /\ extCalls[i].elapsed < extCalls[i].at
        /\ extCalls[i].pending \in cancelled

\* C4: when an internal-transition event of an atomic fires at calendar time T in state
\* S, the output is out(S), the state becomes delta_int(S), last_transition_time
\* becomes T and exactly one new internal transition is scheduled, at
\* T + ta(delta_int(S)).
InternalTransitionCorrect ==
    [][(Len(fired') > Len(fired) /\ fired'[Len(fired')].kind = "internal") =>
          LET a == fired'[Len(fired')].model
              new == SubSeq(outputs', Len(outputs) + 1, Len(outputs'))
              own == SelectSeq(new, LAMBDA o : o.model = a)
              sched == SubSeq(scheduled', Len(scheduled) + 1, Len(scheduled'))
              next_int == {e \in (heap' \cup Range(events')) \ Pending :
                              e.kind = "internal" /\ e.model = a}
          IN /\ own = << [model |-> a, time |-> time_, value |-> out(atom[a].s)] >>
             /\ atom'[a].s = delta_internal(atom[a].s)
             /\ atom'[a].last_transition_time = time_
             /\ Cardinality(next_int) = 1
             /\ \A e \in next_int :
                    /\ e.time = Plus(time_, ta(a, atom'[a].s))
                    /\ e.id = atom'[a].cancel
                    /\ Cardinality({i \in DOMAIN sched : sched[i].id = e.id}) = 1
             /\ \A i \in DOMAIN sched :
                    (\E e \in heap' \cup Range(events') :
                         e.id = sched[i].id /\ e.kind = "internal" /\ e.model = a)
                    => sched[i].id = atom'[a].cancel]_vars

\* an internal transition fired from a state other than the initial one, at a positive
\* calendar time
InternalTransitionWitness ==
    \E i \in DOMAIN fired, j \in DOMAIN outputs :
        /\ fired[i].kind = "internal"
        /\ fired[i].at > 0
        /\ outputs[j].model = fired[i].model
        /\ outputs[j].value > 0

\* C5: schedule_event rejects with PastSchedule exactly the events whose time is below
\* the current time, leaving the heap, the time and the event-scheduled notifications
\* unchanged; an event at the current time is accepted; every accepted event has a time
\* >= the current time when it is scheduled.
PastScheduleRejected ==
    /\ [][Len(inputLog') > Len(inputLog) =>
            LET c == inputLog'[Len(inputLog')]
            IN IF c.time < time_
               THEN /\ err' = "PastSchedule"
                    /\ UNCHANGED <<heap, time_, scheduled>>
               ELSE /\ err' = "none"
                    /\ \E e \in heap' \ heap : e.time = c.time /\ heap' = heap \cup {e}
                    /\ Len(scheduled') = Len(scheduled) + 1
                    /\ scheduled'[Len(scheduled')].time = c.time
                    /\ time_' = time_]_vars
    /\ [](\A i \in DOMAIN scheduled : scheduled[i].time >= scheduled[i].at)

\* after the time has advanced, an input in the past was rejected
PastScheduleRejectedWitness ==
    /\ err = "PastSchedule"
    /\ time_ > 0
    /\ \E i \in DOMAIN inputLog : inputLog[i].time < inputLog[i].at

\* C6: with start_time <= end_time, the calendar's time never decreases.
MonotonicTime ==
    [][start_time <= end_time_ => time_' >= time_]_vars

\* the time advanced over several calls and reached end_time by a call returning false
MonotonicTimeWitness ==
    /\ callNo >= 2
    /\ ret = "false"
    /\ time_ = end_time_
    /\ time_ > start_time

\* C7: events fire in non-decreasing time: an event fired in an earlier execute_next
\* call has a scheduled time <= that of an event fired in a later call.
FiredInTimeOrder ==
    \A i \in DOMAIN fired, j \in DOMAIN fired :
        fired[i].call < fired[j].call => fired[i].time <= fired[j].time

\* the execute_next call number `call` has returned
Returned(call) == callNo > call \/ (callNo = call /\ pc = "idle")

FiredIn(id, call) == \E i \in DOMAIN fired : fired[i].id = id /\ fired[i].call = call

\* C8: two live events, both pending when the earlier is extracted and at most epsilon
\* apart, are fired in the same execute_next call, unless one of them is cancelled
\* before it is processed.
ConcurrentFiredTogether ==
    \A p \in pendingAtExtract :
        Returned(p.call) =>
            \/ FiredIn(p.a, p.call) /\ FiredIn(p.b, p.call)
            \/ p.a \in skipped
            \/ p.b \in (skipped \cup dropped)
            \/ p.b \in cancelled /\ p.b \notin FiredIds

\* C9: when an execute_next call that fired a group returns, no live event left in the
\* calendar has a time <= t + epsilon, t the time of the first extracted event.
GroupClosure ==
    [][(pc = "executing" /\ pc' = "idle") =>
          \A e \in heap' : ~is_cancelled(e, cancelled') => e.time > groupT + epsilon_]_vars

\* C10: an event scheduled by the action of a firing event, within epsilon of the
\* firing event's time, is fired before the same execute_next call returns, unless it
\* is cancelled first.
ZeroDelayJoinsGroup ==
    \A i \in DOMAIN fired, j \in DOMAIN scheduled :
        (/\ scheduled[j].by = fired[i].id
         /\ Concurrent(scheduled[j].time, fired[i].time, epsilon_)
         /\ Returned(fired[i].call))
        => \/ FiredIn(scheduled[j].id, fired[i].call)
           \/ scheduled[j].id \in (skipped \cup dropped)
           \/ scheduled[j].id \in cancelled /\ scheduled[j].id \notin FiredIds

\* the id of the event processed by a step of execute_concurrent_events: the one
\* fired, or else the one skipped
ProcessedId ==
    IF fired' # fired THEN fired'[Len(fired')].id
    ELSE CHOOSE id \in skipped' \ skipped : TRUE

\* C11: in every pass of the loop of execute_concurrent_events the selector is called
\* exactly when the group holds at least two events, on the model names of the group
\* in list order; the event processed is then the first of the group whose model name
\* is the returned name, and the only one of the group when the selector is not called.
SelectorDecidesOrder ==
    [][pc = "executing" =>
          LET names == [i \in DOMAIN events |-> events[i].model]
              matches == {i \in DOMAIN names : names[i] = selected'.name}
          IN /\ selected'.called <=> Len(events) >= 2
             /\ selected'.names = names
             /\ pc' # "failed" =>
                    /\ fired' # fired \/ skipped' # skipped
                    /\ IF Len(events) >= 2
                       THEN /\ matches # {}
                            /\ \E i \in matches :
                                   /\ \A j \in matches : i <= j
                                   /\ ProcessedId = events[i].id
                       ELSE ProcessedId = events[1].id
                    /\ ProcessedId \notin {e.id : e \in Range(events')}]_vars

\* the selector was given a list naming one model twice and returned that name; the
\* first of the two events was fired
SelectorDecidesOrderWitness ==
    /\ selected.called
    /\ \E i, j \in DOMAIN selected.names :
           /\ i < j
           /\ selected.names[i] = selected.name
           /\ selected.names[j] = selected.name
           /\ selected.idx = i
    /\ fired # <<>>
    /\ fired[Len(fired)].id = selected.id

\* C12: every event put into the group of execute_concurrent_events is processed
\* exactly once: no event is fired twice, none is both fired and skipped, only
\* cancelled events are skipped, nothing outside a group is fired, and when the call
\* returns every extracted event has been fired or skipped (none is lost or put back).
\* Two atomics whose first internal transitions coincide both fire in the first call,
\* whichever the selector prefers.
ProcessedExactlyOnce ==
    /\ \A i, j \in DOMAIN fired : fired[i].id = fired[j].id => i = j
    /\ FiredIds \cap skipped = {}
    /\ skipped \subseteq cancelled
    /\ FiredIds \cup skipped \subseteq extracted
    /\ \A e \in heap : e.id \notin extracted
    /\ \A i, j \in DOMAIN events : events[i].id = events[j].id => i = j
    /\ pc # "failed" =>
           /\ extracted = FiredIds \cup skipped \cup {e.id : e \in Range(events)}
           /\ \A e \in Range(events) : e.id \notin FiredIds \cup skipped
    /\ (/\ taTab["A"][1] = taTab["B"][1]
        /\ taTab["A"][1] <= end_time_
        /\ Returned(1)
        /\ \A i \in DOMAIN fired : fired[i].kind # "external")
       => /\ FiredIn(1, 1) /\ FiredIn(2, 1)
          /\ \E i, j \in DOMAIN outputs : outputs[i].model = "A" /\ outputs[j].model = "B"

\* A and B had their first internal transitions at the same time; the selector
\* preferred B, and both fired in the first call, each with its output
ProcessedExactlyOnceWitness ==
    /\ taTab["A"][1] = taTab["B"][1]
    /\ Returned(1)
    /\ fired # <<>>
    /\ fired[1].id = 2
    /\ FiredIn(1, 1)
    /\ FiredIn(2, 1)
    /\ \E i, j \in DOMAIN outputs : outputs[i].model = "A" /\ outputs[j].model = "B"

\* C13: events of equal time are drawn from the calendar in the order in which they
\* were scheduled (ids are given in scheduling order): the group built by
\* Calendar::next lists them in that order, and when every select call returns the
\* first name of its list, events of equal time fired in one call fire in that order.
FifoAmongEqualTimes ==
    /\ [][(pc = "idle" /\ pc' = "executing") =>
            \A i, j \in DOMAIN events' :
                (i < j /\ events'[i].time = events'[j].time) => events'[i].id < events'[j].id]_vars
    /\ [](fifoRun =>
            \A i, j \in DOMAIN fired :
                (i < j /\ fired[i].call = fired[j].call /\ fired[i].time = fired[j].time)
                => fired[i].id < fired[j].id)

\* C14: when the selector returns a name that is not the model name of an event of the
\* group, the call fails with BadSelect and that pass fires and skips nothing: the
\* models, the heap, the outputs and the scheduled events are left as they were; the
\* error is raised in no other case.
BadSelectIsFatal ==
    /\ [][pc = "executing" =>
            LET names == {events[i].model : i \in DOMAIN events}
            IN IF selected'.called /\ selected'.name \notin names
               THEN /\ err' = "BadSelect"
                    /\ pc' = "failed"
                    /\ UNCHANGED <<fired, skipped, heap, cancelled, atom, outputs, scheduled,
                                   extCalls, time_, events>>
               ELSE err' # "BadSelect"]_vars
    /\ [](err = "BadSelect" => pc = "failed")

\* a group of which one event had been fired was abandoned by a BadSelect
BadSelectIsFatalWitness ==
    /\ err = "BadSelect"
    /\ pc = "failed"
    /\ Len(events) >= 2
    /\ fired # <<>>
    /\ fired[Len(fired)].call = callNo

\* C15: after an execute_next call that returned false because the first live event
\* lies beyond end_time, the calendar's time is end_time.
EndTimeFence ==
    lastCall.why = "end" => time_ = end_time_

\* C16: after an execute_next call that found no live event (the heap empty, or
\* emptied of its cancelled events) and returned false, the calendar's time is
\* end_time.
EmptyCalendarAdvancesToEnd ==
    lastCall.why = "empty" => time_ = end_time_

\* C17: execute_next returns true exactly when it executed at least one event action
\* during the call: after a call that returned true at least one event was fired
\* since the call began, and after a call that returned false none was.
ReturnsTrueIffFired ==
    /\ (pc = "idle" /\ ret = "true") =>
           /\ lastCall.why = "fire"
           /\ Len(fired) > lastCall.nfired
           /\ \A i \in (lastCall.nfired + 1)..Len(fired) : fired[i].call = callNo
    /\ ret = "false" =>
           /\ lastCall.why \in {"empty", "end"}
           /\ Len(fired) = lastCall.nfired

\* a call, not the first, returned true after firing one event and skipping a
\* cancelled one
ReturnsTrueIffFiredWitness ==
    /\ pc = "idle"
    /\ ret = "true"
    /\ lastCall.nfired > 0
    /\ Len(fired) = lastCall.nfired + 1
    /\ skipped # {}

\* C18: when an execute_next call returns false, no live event left in the calendar
\* has a time <= end_time.
NoLiveEventLeftBeforeEnd ==
    [][(pc = "idle" /\ pc' = "idle" /\ nInputs' = nInputs) =>
          /\ ret' = "false"
          /\ \A e \in heap' : ~is_cancelled(e, cancelled') => e.time > end_time_]_vars

\* a call returned false through the end_time branch after events had been fired,
\* leaving a live event with a finite time beyond end_time in the calendar
NoLiveEventLeftBeforeEndWitness ==
    /\ pc = "idle"
    /\ ret = "false"
    /\ lastCall.why = "end"
    /\ fired # <<>>
    /\ \E e \in heap : ~is_cancelled(e, cancelled) /\ e.time > end_time_ /\ e.time # INF

\* C19: after an execute_next call that returned true, the calendar's time is t, the
\* time of the first (earliest live) event of the group extracted by that call.
TimeIsGroupTime ==
    (pc = "idle" /\ ret = "true") => time_ = groupT

\* C20: for the influencer edge A -> B, every output of A schedules exactly one input
\* event for B, at the calendar time of the output and carrying its value; when such
\* an event fires, delta_ext of B is called exactly once, with the event's value
\* passed through the edge's transformer; B receives no other input.
InfluencerCompleteness ==
    [][LET newOut == {k \in (Len(outputs) + 1)..Len(outputs') : outputs'[k].model = "A"}
           newInf == {e \in heap' \cup Range(events') : e.kind = "influencer" /\ e.id >= nextId}
           newExt == {k \in (Len(extCalls) + 1)..Len(extCalls') : extCalls'[k].model = "B"}
       IN /\ Cardinality(newInf) = Cardinality(newOut)
          /\ \A e \in newInf :
                 /\ e.model = "B"
                 /\ e.from = "A"
                 /\ e.time = time_
                 /\ \E k \in newOut : outputs'[k].value = e.value /\ outputs'[k].time = e.time
                 /\ Cardinality({j \in DOMAIN scheduled' : scheduled'[j].id = e.id}) = 1
          /\ IF Len(fired') > Len(fired) /\ fired'[Len(fired')].kind = "influencer"
             THEN \E e \in Range(events) :
                      /\ e.id = fired'[Len(fired')].id
                      /\ e.model = "B"
                      /\ Cardinality(newExt) = 1
                      /\ \A k \in newExt : extCalls'[k].x = influencer_transform(e.value, e.tr)
             ELSE newExt = {}]_vars

\* an output of A made after its first transition was delivered to B
InfluencerCompletenessWitness ==
    /\ \E i \in DOMAIN fired : fired[i].kind = "influencer" /\ fired[i].at > 0
    /\ \E k \in DOMAIN extCalls : extCalls[k].model = "B" /\ extCalls[k].x > 0

\* the edges from the component a to the output of the compound
OutputEdges(a) ==
    {l \in Range(output_listeners_[a]) : l.kind = "compound_output"}

\* the edges from the component a to other components
InfluencerEdges(a) ==
    {l \in Range(output_listeners_[a]) : l.kind = "influencer"}

\* the events scheduled while the event id was firing
ScheduledBy(id) == {k \in DOMAIN scheduled : scheduled[k].by = id}

\* C22: every output of a component with an edge to the output of the compound is
\* followed at once by exactly one output of the compound, at the same calendar time
\* and with the edge's transformer applied; the compound emits nothing else; and the
\* firing of an internal transition schedules one event for the next internal
\* transition and one per edge to another component, none for the compound's output.
CompoundOutputRelay ==
    /\ \A k \in DOMAIN outputs :
           /\ (outputs[k].model \in Atomics /\ OutputEdges(outputs[k].model) # {}) =>
                  /\ k < Len(outputs)
                  /\ \E l \in OutputEdges(outputs[k].model) :
                         outputs[k + 1] = [model |-> RootName, time |-> outputs[k].time,
                                           value |-> IF l.tr = "none" THEN outputs[k].value
                                                     ELSE outputs[k].value + 1]
           /\ outputs[k].model = RootName =>
                  /\ k > 1
                  /\ outputs[k - 1].model \in Atomics
                  /\ OutputEdges(outputs[k - 1].model) # {}
    /\ \A i \in DOMAIN fired :
           (fired[i].kind = "internal" /\ (err = "none" \/ i < Len(fired))) =>
               Cardinality(ScheduledBy(fired[i].id)) =
                   1 + Cardinality(InfluencerEdges(fired[i].model))

\* A and B both emitted, and the compound re-emitted both: one value incremented by
\* the transformer of the edge, the other as it was
CompoundOutputRelayWitness ==
    /\ \E k \in DOMAIN outputs :
           /\ k > 1
           /\ outputs[k].model = RootName
           /\ outputs[k - 1].model = "A"
           /\ outputs[k].value = outputs[k - 1].value + 1
    /\ \E k \in DOMAIN outputs :
           /\ k > 1
           /\ outputs[k].model = RootName
           /\ outputs[k - 1].model = "B"
           /\ outputs[k].value = outputs[k - 1].value

\* C21: when an input event of the compound fires (and no delivery fails), delta_ext
\* is called within that firing once for every component wired from the compound's
\* input, in the order the edges were registered, with the event's value passed through
\* the edge's transformer and at the calendar time of the firing; the events scheduled
\* by the firing are one internal transition per receiving component and nothing else.
CompoundInputDirect ==
    [][(/\ Len(fired') > Len(fired)
        /\ fired'[Len(fired')].kind = "external"
        /\ err' = "none")
       => LET ev == CHOOSE e \in Range(events) : e.id = fired'[Len(fired')].id
              n == Len(input_listeners_)
              newEv == {e \in heap' \cup Range(events') : e.id >= nextId}
          IN /\ Len(extCalls') = Len(extCalls) + n
             /\ \A i \in 1..n :
                    LET c == extCalls'[Len(extCalls) + i]
                    IN /\ c.model = input_listeners_[i].target
                       /\ c.x = (IF input_listeners_[i].tr = "none" THEN ev.value
                                 ELSE ev.value + 1)
                       /\ c.at = time_
             /\ Cardinality(newEv) = n
             /\ Cardinality({k \in DOMAIN scheduled' : scheduled'[k].by = ev.id}) = n
             /\ \A e \in newEv :
                    /\ e.kind = "internal"
                    /\ \E i \in 1..n : e.model = input_listeners_[i].target]_vars

\* one input event was delivered to B and then to A, in the order of registration,
\* with the transformer of the edge to B applied
CompoundInputDirectWitness ==
    /\ Len(input_listeners_) > 1
    /\ input_listeners_[1].target = "B"
    /\ \E i \in DOMAIN fired : fired[i].kind = "external"
    /\ \E k \in DOMAIN extCalls :
           /\ k < Len(extCalls)
           /\ extCalls[k].model = "B"
           /\ extCalls[k + 1].model = "A"
           /\ extCalls[k].at = extCalls[k + 1].at
           /\ extCalls[k].x = extCalls[k + 1].x + 1

\* the internal transitions of the atomic a that were fired, in order
InternalsOf(a) == SelectSeq(fired, LAMBDA f : f.kind = "internal" /\ f.model = a)

\* the state-transition notifications of the atomic a, in order
TransitionsOf(a) == SelectSeq(transitions, LAMBDA t : t.model = a)

\* the outputs of the model a, in order
OutputsOf(a) == SelectSeq(outputs, LAMBDA o : o.model = a)

\* the atomic a has a constant, finite time advance
ConstantAdvance(a) == taTab[a][1] = taTab[a][2] /\ taTab[a][1] # INF

\* C23: at the end of a run, an atomic with a constant time advance d > epsilon that
\* received no input and whose output feeds no other component (it runs as if alone)
\* has performed its k-th internal transition at start_time + k*d, for every k >= 1
\* with start_time + k*d <= end_time (the one at end_time included) and no other: from
\* state k-1 to state k, with the output k-1.
ConstantAdvanceSchedule ==
    \A a \in Atomics :
        LET d == taTab[a][1]
            n == (end_time_ - start_time) \div d
        IN (/\ simPc = "ended"
            /\ ConstantAdvance(a)
            /\ d > epsilon_
            /\ InfluencerEdges(a) = {}
            /\ \A k \in DOMAIN extCalls : extCalls[k].model # a)
           => /\ Len(InternalsOf(a)) = n
              /\ Len(TransitionsOf(a)) = n
              /\ Len(OutputsOf(a)) = n
              /\ \A k \in 1..n :
                     /\ InternalsOf(a)[k].time = start_time + k * d
                     /\ InternalsOf(a)[k].at = start_time + k * d
                     /\ TransitionsOf(a)[k] = [model |-> a, time |-> start_time + k * d,
                                               prev |-> k - 1, next |-> k]
                     /\ OutputsOf(a)[k].value = k - 1
                     /\ OutputsOf(a)[k].time = start_time + k * d

\* a run without inputs has ended after three internal transitions of A, the last
\* one exactly at end_time
ConstantAdvanceScheduleWitness ==
    /\ simPc = "ended"
    /\ nInputs = 0
    /\ ConstantAdvance("A")
    /\ Len(InternalsOf("A")) > 2
    /\ InternalsOf("A")[Len(InternalsOf("A"))].time = end_time_
    /\ atom["A"].s = Len(InternalsOf("A"))

\* the run of the atomic A with ta(s) = 1 (two ticks), delta_ext(s, e, x) = s + x and
\* the window 0..3 (six ticks) has ended, one input of value 10 having been scheduled
\* before the run for t = 0.5 (one tick) and wired to A only
InputScenario ==
    /\ simPc = "ended"
    /\ start_time = 0
    /\ end_time_ = 6
    /\ epsilon_ = 0
    /\ taTab["A"] = <<2, 2>>
    /\ deltaExt = "s+x"
    /\ input_listeners_ = << [target |-> "A", tr |-> "none"] >>
    /\ inputLog = << [time |-> 1, value |-> 10, at |-> 0] >>
    /\ simLog[1].time = 0

\* C24 as stated: after the input the next internal transition lies beyond the end of
\* the run, so that A emits no output and its final state is 10.
InputScenarioAsClaimed ==
    InputScenario => (atom["A"].s = 10 /\ OutputsOf("A") = <<>>)

\* C24 as amended: at t = 0.5 the pending internal transition is cancelled and the
\* state becomes 10; the internal transition is rescheduled for t = 0.5 + ta = 1.5, so A
\* performs internal transitions at t = 1.5 and t = 2.5 with the outputs 10 and 11, the
\* one rescheduled for t = 3.5 lies beyond the end, and the final state is 12.
InputScenarioOutcome ==
    InputScenario =>
        /\ Len(extCalls) = 1
        /\ extCalls[1].model = "A"
        /\ extCalls[1].at = 1
        /\ extCalls[1].s = 0
        /\ extCalls[1].x = 10
        /\ extCalls[1].pendingCancelled
        /\ TransitionsOf("A") =
               << [model |-> "A", time |-> 1, prev |-> 0, next |-> 10],
                  [model |-> "A", time |-> 3, prev |-> 10, next |-> 11],
                  [model |-> "A", time |-> 5, prev |-> 11, next |-> 12] >>
        /\ OutputsOf("A") = << [model |-> "A", time |-> 3, value |-> 10],
                               [model |-> "A", time |-> 5, value |-> 11] >>
        /\ atom["A"].s = 12
        /\ \A e \in PendingInternals("A") : e.time = 7

\* the run of the scenario has ended, and A went through an external and two internal
\* transitions
InputScenarioWitness ==
    /\ InputScenario
    /\ Len(TransitionsOf("A")) > 2
    /\ Len(InternalsOf("A")) = 2

\* C25: no internal transition scheduled at infinite time is ever fired, and a run in
\* which every atomic is passive (ta = INF) and no input is scheduled fires nothing,
\* makes no step and ends with the calendar at end_time.
PassiveRunEndsAtEndTime ==
    /\ \A i \in DOMAIN fired : fired[i].time # INF
    /\ (/\ simPc = "ended"
        /\ nInputs = 0
        /\ \A a \in Atomics : taTab[a] = <<INF, INF>>)
       => /\ fired = <<>>
          /\ step = 1
          /\ time_ = end_time_

\* the influencer graph has an edge whose source is its target: a component listed
\* as its own influencer, or the output of the compound wired from the compound
HasSelfEdge(infl) ==
    \E i \in DOMAIN infl : \E j \in DOMAIN infl[i].from :
        infl[i].from[j].influencer = infl[i].component

\* the influencer graph names, as a target or as a source, a component that does
\* not exist
HasUnknownName(infl) ==
    \E i \in DOMAIN infl :
        \/ infl[i].component \notin Atomics \cup {Nullopt}
        \/ \E j \in DOMAIN infl[i].from : infl[i].from[j].influencer \notin Atomics \cup {Nullopt}

\* C26 as stated: a compound whose influencer graph has an edge with source == target
\* fails at construction with a SelfLoop error.
SelfLoopAsClaimed ==
    HasSelfEdge(influencers) => (pc = "failed" /\ err = "SelfLoop")

\* C26 as amended: a compound whose influencer graph has an edge with source == target
\* fails at construction, with the error of the first bad edge that is met: a SelfLoop
\* error naming the model, or an UnknownComponent error when the graph also names a
\* component that does not exist; always SelfLoop when every name of the graph exists.
SelfLoopRejected ==
    HasSelfEdge(influencers) =>
        /\ pc = "failed"
        /\ err \in {"SelfLoop", "UnknownComponent"}
        /\ err = "SelfLoop" => errNames \in {<<a>> : a \in Atomics \cup {RootName}}
        /\ ~HasUnknownName(influencers) => err = "SelfLoop"

\* the construction failed on A listed as its own influencer
SelfLoopRejectedWitness ==
    /\ HasSelfEdge(influencers)
    /\ ~HasUnknownName(influencers)
    /\ pc = "failed"
    /\ err = "SelfLoop"
    /\ errNames = <<"A">>

\* C27 as stated: a compound whose influencer graph names a component that does not
\* exist, as the target or as the source of an edge, fails at construction with an
\* UnknownComponent error.
UnknownComponentAsClaimed ==
    HasUnknownName(influencers) => (pc = "failed" /\ err = "UnknownComponent")

\* C27 as amended: a compound whose influencer graph names a component that does not
\* exist fails at construction, with the error of the first bad edge that is met: an
\* UnknownComponent error naming that component, or a SelfLoop error when the graph
\* also has an edge with source == target; always UnknownComponent when it has none.
UnknownComponentRejected ==
    HasUnknownName(influencers) =>
        /\ pc = "failed"
        /\ err \in {"SelfLoop", "UnknownComponent"}
        /\ err = "UnknownComponent" => errNames = <<Unknown>>
        /\ ~HasSelfEdge(influencers) => err = "UnknownComponent"

\* the construction failed on an edge whose source is no component, the target being
\* one
UnknownComponentRejectedWitness ==
    /\ HasUnknownName(influencers)
    /\ ~HasSelfEdge(influencers)
    /\ \A i \in DOMAIN influencers : influencers[i].component \in Atomics \cup {Nullopt}
    /\ pc = "failed"
    /\ err = "UnknownComponent"
    /\ errNames = <<Unknown>>

\* the notifications of the per-step observer, in order
SimSteps == SelectSeq(simLog, LAMBDA l : l.what = "step")

\* the number of execute_next calls that have returned true
TrueReturns == IF pc = "idle" THEN callNo ELSE callNo - 1

\* C28: Simulator::run notifies the start once (every atomic, with the start time)
\* before any execute_next call; after each execute_next call that returned true it
\* notifies the per-step observer once, with the calendar time of that call and the
\* step numbers 1, 2, 3, ... in order; it notifies the end once (every atomic, with the
\* calendar time) when execute_next has returned false, and nothing after it.
RunObservers ==
    LET n == Len(ComponentOrder)
    IN /\ simPc = "new" => (simLog = <<>> /\ lastCall.why = "none" /\ callNo = 0)
       /\ simPc \in {"running", "ended"} =>
              /\ Len(simLog) >= n
              /\ \A i \in 1..n :
                     simLog[i] = [what |-> "start", name |-> ComponentOrder[i],
                                  time |-> start_time, n |-> 0]
              /\ \A i \in DOMAIN simLog : simLog[i].what = "start" => i <= n
              /\ Len(SimSteps) = TrueReturns
              /\ step = Len(SimSteps) + 1
              /\ \A k \in DOMAIN SimSteps : SimSteps[k].n = k
              /\ \A i \in DOMAIN fired :
                     fired[i].call <= Len(SimSteps) => SimSteps[fired[i].call].time = fired[i].at
              /\ (simPc = "ended") = (ret = "false")
              /\ \A i \in DOMAIN simLog :
                     simLog[i].what = "end" => (simPc = "ended" /\ i > Len(simLog) - n)
       /\ simPc = "ended" =>
              /\ Len(simLog) = 2 * n + Len(SimSteps)
              /\ \A i \in 1..n :
                     simLog[n + Len(SimSteps) + i] =
                         [what |-> "end", name |-> ComponentOrder[i], time |-> time_,
                          n |-> state_to_str(atom[ComponentOrder[i]].s)]

\* a run has ended after at least two steps made at different times
RunObserversWitness ==
    /\ simPc = "ended"
    /\ Len(SimSteps) > 1
    /\ SimSteps[2].time > SimSteps[1].time
    /\ simLog[Len(simLog)].what = "end"

\* C29: when an input event carrying a value that is no X fires and reaches an atomic
\* (through an edge without transformer), the firing fails with a TypeMismatch error;
\* a TypeMismatch error names the source of the value and the target atomic, and leaves
\* the target as it was: same state, same last transition time, no transition notified,
\* delta_ext not called, and its pending internal transition not cancelled.
TypeMismatchLeavesAtomic ==
    [][/\ (/\ Len(fired') > Len(fired)
           /\ fired'[Len(fired')].kind = "external"
           /\ input_listeners_ # <<>>
           /\ input_listeners_[1].tr = "none"
           /\ \E e \in Range(events) : e.id = fired'[Len(fired')].id /\ ~holds_X(e.value))
          => err' = "TypeMismatch"
       /\ err' = "TypeMismatch"
          => /\ pc' = "failed"
             /\ Len(fired') > Len(fired)
             /\ Len(errNames') = 2
             /\ errNames'[2] \in Atomics
             /\ \E e \in Range(events) :
                    /\ e.id = fired'[Len(fired')].id
                    /\ ~holds_X(e.value)
                    /\ errNames'[1] = e.from
             /\ atom'[errNames'[2]] = atom[errNames'[2]]
             /\ (atom[errNames'[2]].cancel \in cancelled') =
                    (atom[errNames'[2]].cancel \in cancelled)
             /\ transitions' = transitions
             /\ extCalls' = extCalls]_vars

\* the run failed on a value of another type sent from the root to A, whose internal
\* transition is still pending
TypeMismatchLeavesAtomicWitness ==
    /\ pc = "failed"
    /\ err = "TypeMismatch"
    /\ errNames = <<RootName, "A">>
    /\ PendingInternals("A") # {}
    /\ atom["A"].cancel \notin cancelled

\* the delta_external calls that changed the state
ChangingExtCalls ==
    {k \in DOMAIN extCalls :
        delta_external(extCalls[k].s, extCalls[k].elapsed, extCalls[k].x) # extCalls[k].s}

\* C30: a state transition is notified if and only if the printed previous and new
\* states differ: no notification carries equal prev and next, and every transition
\* that changes the printed state (every internal transition, and every external
\* transition whose delta_ext result differs from the state) is notified once.
TransitionsNotifiedIffChanged ==
    /\ \A k \in DOMAIN transitions : transitions[k].prev # transitions[k].next
    /\ Cardinality({k \in DOMAIN transitions : transitions[k].prev # transitions[k].next}) =
           Cardinality({i \in DOMAIN fired : fired[i].kind = "internal"})
               + Cardinality(ChangingExtCalls)

\* C31: no event whose scheduled time is greater than end_time is ever fired, whether it
\* is the first of its group or was extracted into a group with an earlier event.
NothingFiredPastEnd ==
    \A i \in DOMAIN fired : fired[i].time <= end_time_

\* C32: every event fired during an execute_next call has a scheduled time within
\* epsilon of t, the time of the first event extracted in that call, whether it was
\* extracted at first or joined the group while it was being fired.
FiredWithinEpsilonOfGroup ==
    \A i \in DOMAIN fired :
        fired[i].call = callNo => Abs(fired[i].time - groupT) <= epsilon_

\* every time advance of every atomic is strictly positive (or infinite)
PositiveAdvances == \A a \in Atomics : taTab[a][1] > 0 /\ taTab[a][2] > 0

\* C33 (termination), in the form a finite run refutes: when every time advance is
\* strictly positive, each internal transition moves the atomic's next one strictly
\* later in logical time, so an execute_next call never fires twice an internal
\* transition of the same atomic with the same scheduled time (a transition that
\* reschedules itself at its own time and is fired again in the same call repeats
\* without end, and neither the call nor the run finishes).
InternalTransitionsProgress ==
    PositiveAdvances =>
        \A i \in DOMAIN fired, j \in DOMAIN fired :
            (/\ i < j
             /\ fired[i].kind = "internal"
             /\ fired[j].kind = "internal"
             /\ fired[i].model = fired[j].model
             /\ fired[i].call = fired[j].call)
            => fired[j].time > fired[i].time

\* the position of an atomic in the construction order, which is the id of the event
\* its constructor schedules
ConstructionIndex(a) == CHOOSE i \in DOMAIN ComponentOrder : ComponentOrder[i] = a

\* C34: from construction on and between the execute_next calls of a run every atomic
\* has exactly one live internal-transition event pending, the first one scheduled at
\* construction time + ta(S0); so during Simulator.run no execute_next call finds the
\* calendar empty: it returns false only through the end_time branch.
OneLiveInternalBetweenCalls ==
    /\ (pc = "idle" /\ ret # "false") =>
           \A a \in Atomics : Cardinality(PendingInternals(a)) = 1
    /\ \A a \in Atomics :
           LET c == scheduled[ConstructionIndex(a)]
           IN /\ c.id = ConstructionIndex(a)
              /\ c.by = 0
              /\ c.time = start_time + ta(a, 0)
    /\ simPc \in {"running", "ended"} => lastCall.why # "empty"

\* between two calls of a run, an atomic that received an input (its first internal
\* event was cancelled and replaced) and then made an internal transition
OneLiveInternalBetweenCallsWitness ==
    /\ simPc = "running"
    /\ pc = "idle"
    /\ ret = "true"
    /\ \E a \in Atomics :
           /\ \E i \in DOMAIN extCalls : extCalls[i].model = a
           /\ \E i \in DOMAIN fired : fired[i].model = a /\ fired[i].kind = "internal"
           /\ Cardinality(PendingInternals(a)) = 1

\* C35: at every external transition the elapsed time passed to delta_ext satisfies
\* 0 <= elapsed <= ta(S), S being the atomic's state before the transition: an input is
\* never delivered later than the pending internal transition was due.
ElapsedWithinTimeAdvance ==
    \A i \in DOMAIN extCalls :
        /\ 0 <= extCalls[i].elapsed
        /\ extCalls[i].elapsed <= ta(extCalls[i].model, extCalls[i].s)

\* C36: for an atomic that has made no transition yet (it is still in S0 = 0, every
\* transition increases the state), the elapsed time passed to delta_ext at its first
\* external input is the calendar time minus the simulation's start_time.
FirstElapsedSinceStart ==
    \A i \in DOMAIN extCalls :
        extCalls[i].s = 0 => extCalls[i].elapsed = extCalls[i].at - start_time

\* C37: in an internal transition the state-transition observers are notified of
\* S -> S' first, then the output out(S) is emitted, then the next internal transition
\* is scheduled: the notification precedes the scheduling of every influencer input
\* event the output causes, the atomic is in S' afterwards, and those input events are
\* scheduled before the atomic's own next internal-transition event, which is scheduled
\* last, after every output of the action.
InternalTransitionOrder ==
    [][(Len(fired') = Len(fired) + 1 /\ fired'[Len(fired')].kind = "internal"
            /\ err' = "none") =>
        LET f == fired'[Len(fired')]
            a == f.model
            t == transitions'[Len(transitions')]
            sched == SubSeq(scheduled', Len(scheduled) + 1, Len(scheduled'))
        IN /\ Len(transitions') = Len(transitions) + 1
           /\ t.model = a
           /\ t.prev = state_to_str(atom[a].s)
           /\ t.next = state_to_str(atom'[a].s)
           /\ \A k \in DOMAIN sched : sched[k].notified = Len(transitions')
           /\ sched[Len(sched)].outs = Len(outputs')
           /\ Len(outputs') > Len(outputs)
           /\ outputs'[Len(outputs) + 1] = [model |-> a, time |-> time_, value |-> out(atom[a].s)]
           /\ Len(sched) = 1 + Cardinality({k \in DOMAIN OutputListeners(a) :
                                              OutputListeners(a)[k].kind = "influencer"})
           /\ \A k \in DOMAIN sched : sched[k].by = f.id
           /\ sched[Len(sched)].id = atom'[a].cancel
           /\ \A k \in 1..(Len(sched) - 1) :
                  /\ sched[k].id < sched[Len(sched)].id
                  /\ \E e \in heap' \cup Range(events') :
                         e.id = sched[k].id /\ e.kind = "influencer" /\ e.from = a
           /\ \E e \in heap' \cup Range(events') :
                  e.id = sched[Len(sched)].id /\ e.kind = "internal" /\ e.model = a
      ]_vars

\* an internal transition of A whose output was relayed to B: the action scheduled B's
\* input event and then A's next internal transition
InternalTransitionOrderWitness ==
    \E i \in DOMAIN fired :
        /\ fired[i].kind = "internal"
        /\ fired[i].model = "A"
        /\ \E j, k \in DOMAIN scheduled :
               /\ j < k
               /\ scheduled[j].by = fired[i].id
               /\ scheduled[k].by = fired[i].id
        /\ \E k \in DOMAIN transitions : transitions[k].model = "A"
        /\ err = "none"

\* C38: tie-breaking in every concurrent group uses only the selector of the top
\* model: of a group of two or more events the one fired is the first whose model is
\* the name the root compound's selector returns, even when every event of the group
\* belongs to a component of the nested compound, whose own selector would return
\* another name; and over an atomic the first event of the list is fired.
RootSelectorOnly ==
    [][(pc = "executing" /\ Len(events) >= 2) =>
        LET names == [i \in DOMAIN events |-> events[i].model]
            top == IF p_model_ \in DOMAIN select_ THEN select_[p_model_] ELSE "fifo"
            name == IF top = "lifo" THEN names[Len(names)] ELSE names[1]
            first == CHOOSE i \in DOMAIN names :
                         names[i] = name /\ \A j \in 1..(i - 1) : names[j] # name
        IN /\ top \in {"fifo", "lifo"}
           /\ selected'.called
           /\ selected'.name = name
           /\ selected'.id = events[first].id
           /\ p_model_ \in Atomics => selected'.id = events[1].id
           /\ Len(fired') > Len(fired) => fired'[Len(fired')].id = events[first].id
           /\ Len(fired') = Len(fired) => skipped' = skipped \cup {events[first].id}
      ]_vars

\* the group held events of A and of B, both components of N; the root's selector
\* returns the last name, N's the first one, and the event of the last name was fired
RootSelectorOnlyWitness ==
    /\ NestedName \in DOMAIN select_
    /\ select_[RootName] = "lifo"
    /\ select_[NestedName] = "fifo"
    /\ selected.called
    /\ Len(selected.names) >= 2
    /\ \A i \in DOMAIN selected.names : selected.names[i] \in Range(Leaves(NestedName))
    /\ selected.names[1] # selected.names[Len(selected.names)]
    /\ selected.name = selected.names[Len(selected.names)]
    /\ fired # <<>>
    /\ fired[Len(fired)].id = selected.id
    /\ fired[Len(fired)].model = selected.name

\* the ids of the events that are no longer in the calendar: fired, skipped in their
\* group, or popped as cancelled
GoneIds == (FiredIds \cup skipped \cup dropped) \ {e.id : e \in Pending}

\* C39: cancellation is lazy.  Invoking a cancellation handle only sets the flag of its
\* event: between two calls it changes nothing else (heap, calendar time, every other
\* event and flag), and inside an event action the flagged event stays in the heap
\* unless it is on top and popped at once.  A cancelled event leaves the heap only
\* when it is on top (no event left in the heap is earlier).  Invoking the handle of an
\* event that has fired affects no pending event.
LazyCancellation ==
    [][/\ (cancelled' # cancelled) =>
            /\ cancelled \subseteq cancelled'
            /\ time_' = time_
            /\ \A e \in heap :
                   e.id \in cancelled' \ cancelled => (e \in heap' \/ e.id \in dropped')
            /\ \A e \in Pending :
                   e.id \notin cancelled' \ cancelled =>
                       (is_cancelled(e, cancelled') <=> is_cancelled(e, cancelled))
            /\ pc = "idle" =>
                   /\ Cardinality(cancelled' \ cancelled) = 1
                   /\ UNCHANGED <<heap, events, atom, nextId, pc, fired, skipped, dropped,
                                  scheduled, outputs, extCalls, extracted, transitions, ret,
                                  err>>
                   /\ (cancelled' \ cancelled) \subseteq GoneIds =>
                          \A e \in Pending :
                              is_cancelled(e, cancelled') <=> is_cancelled(e, cancelled)
            /\ pc = "executing" =>
                   (cancelled' \ cancelled) \subseteq {atom[a].cancel : a \in Atomics}
       /\ \A e \in heap :
              (e \notin heap' /\ is_cancelled(e, cancelled')) =>
                  /\ e.id \in dropped'
                  /\ e.id \notin extracted'
                  /\ \A f \in heap' : e.time <= f.time
      ]_vars

\* the handle of an event that has fired was invoked, another cancelled event is still
\* in the heap, and a third one was popped when it came to the top
LazyCancellationWitness ==
    /\ cancelled \cap FiredIds # {}
    /\ \E e \in heap : is_cancelled(e, cancelled)
    /\ dropped # {}
    /\ \E e \in heap : ~is_cancelled(e, cancelled)

====
